---- MODULE Spec2Model ----
(***************************************************************************)
(* Boxed 64-bit integers of the Janet runtime (src/core/inttypes.c): the   *)
(* conversion layer, the constructors, the operator handlers produced by   *)
(* the OPMETHOD / DIVMETHOD / COMPMETHOD macros, the two descriptors with  *)
(* their hash, compare and marshal routines.                                *)
(*                                                                         *)
(* A 64-bit payload is kept at its full width, as its eight bytes, least   *)
(* significant byte first: word[1] is bits 0..7, word[8] bits 56..63.      *)
(* All arithmetic is carried out on the bytes, modulo 2^64.                *)
(***************************************************************************)
EXTENDS Integers, Sequences, FiniteSets, TLC

\* ------------------------------------------------------------ 64-bit words

\* sizeof(int64_t): the size passed to janet_abstract for every box.
NBytes == 8

\* Number of values of one byte.
ByteBase == 256

ByteIdx == 1..NBytes

WordZero == [i \in ByteIdx |-> 0]

\* 0xFFFFFFFFFFFFFFFF: UINT64_MAX, and the bits of the signed value -1.
WordAllOnes == [i \in ByteIdx |-> ByteBase - 1]

\* INT64_MIN, 0x8000000000000000.
INT64_MIN == [i \in ByteIdx |-> IF i = NBytes THEN ByteBase \div 2 ELSE 0]

\* INT64_MAX, 0x7FFFFFFFFFFFFFFF.
INT64_MAX == [i \in ByteIdx |-> IF i = NBytes THEN (ByteBase \div 2) - 1 ELSE ByteBase - 1]

\* MAX_INT_IN_DBL, 2^53 = 0x0020000000000000.
MAX_INT_IN_DBL == [i \in ByteIdx |-> IF i = 7 THEN 32 ELSE 0]

\* The word of a small natural number n (n < 2^31).
RECURSIVE NatBytes(_, _)
NatBytes(n, i) ==
    IF i > NBytes THEN << >> ELSE << n % ByteBase >> \o NatBytes(n \div ByteBase, i + 1)

WordOfNat(n) == NatBytes(n, 1)

RECURSIVE AddFrom(_, _, _, _)
AddFrom(a, b, c, i) ==
    IF i > NBytes THEN << >>
    ELSE LET s == a[i] + b[i] + c
         IN  << s % ByteBase >> \o AddFrom(a, b, s \div ByteBase, i + 1)

\* a + b modulo 2^64.
WordAdd(a, b) == AddFrom(a, b, 0, 1)

WordNot(a) == [i \in ByteIdx |-> (ByteBase - 1) - a[i]]

\* Two's complement negation, modulo 2^64.
WordNeg(a) == AddFrom(WordNot(a), WordZero, 1, 1)

\* a - b modulo 2^64.
WordSub(a, b) == AddFrom(a, WordNot(b), 1, 1)

\* The word of a small integer (|n| < 2^31), two's complement.
WordOfInt(n) == IF n >= 0 THEN WordOfNat(n) ELSE WordNeg(WordOfNat(-n))

\* Column k (0-based) of the schoolbook product, before carries.
RECURSIVE MulColumn(_, _, _, _)
MulColumn(a, b, k, i) ==
    IF i > k + 1 THEN 0
    ELSE a[i] * b[k + 2 - i] + MulColumn(a, b, k, i + 1)

RECURSIVE MulFrom(_, _, _, _)
MulFrom(a, b, c, k) ==
    IF k >= NBytes THEN << >>
    ELSE LET s == MulColumn(a, b, k, 1) + c
         IN  << s % ByteBase >> \o MulFrom(a, b, s \div ByteBase, k + 1)

\* a * b modulo 2^64.
WordMul(a, b) == MulFrom(a, b, 0, 0)

\* Unsigned order, most significant byte first.
RECURSIVE ULtFrom(_, _, _)
ULtFrom(a, b, i) ==
    IF i = 0 THEN FALSE
    ELSE IF a[i] # b[i] THEN a[i] < b[i]
    ELSE ULtFrom(a, b, i - 1)

WordULt(a, b) == ULtFrom(a, b, NBytes)

\* Bit 63.
SignBit(a) == a[NBytes] >= ByteBase \div 2

\* Two's complement order.
WordSLt(a, b) ==
    IF SignBit(a) # SignBit(b) THEN SignBit(a) ELSE WordULt(a, b)

\* Bitwise operators on one byte, bit by bit.
RECURSIVE ByteBitOp(_, _, _, _)
ByteBitOp(op, x, y, n) ==
    IF n = 0 THEN 0
    ELSE LET bx == x % 2
             by == y % 2
             bit == CASE op = "&" -> IF bx = 1 /\ by = 1 THEN 1 ELSE 0
                      [] op = "|" -> IF bx = 1 \/ by = 1 THEN 1 ELSE 0
                      [] op = "^" -> IF bx # by THEN 1 ELSE 0
         IN  bit + 2 * ByteBitOp(op, x \div 2, y \div 2, n - 1)

WordBitOp(op, a, b) == [i \in ByteIdx |-> ByteBitOp(op, a[i], b[i], 8)]

\* a << 1 modulo 2^64 with bit `low` shifted in.
WordShl1(a, low) == AddFrom(a, a, low, 1)

\* a << n modulo 2^64, 0 <= n <= 63: whole bytes, then bits.
WordShl(a, n) ==
    LET q == n \div 8
        m == 2 ^ (n % 8)
        B(i) == IF i - q >= 1 THEN a[i - q] ELSE 0
    IN  [i \in ByteIdx |-> ((B(i) * m) % ByteBase) + ((B(i - 1) * m) \div ByteBase)]

\* a >> n, 0 <= n <= 63, the vacated bits filled with `fill` (0 or 1).
WordShr(a, n, fill) ==
    LET q == n \div 8
        r == n % 8
        B(i) == IF i + q <= NBytes THEN a[i + q] ELSE fill * (ByteBase - 1)
    IN  [i \in ByteIdx |->
            (B(i) \div (2 ^ r)) + ((B(i + 1) * (2 ^ (8 - r))) % ByteBase)]

\* One step of restoring binary long division by b # 0: the next bit of the
\* dividend is shifted into the remainder (65 bits wide while compared: bit 63
\* of the old remainder is the carry out of the shift).
DivBitSelect(b, s, r1) ==
    IF SignBit(s.rem) \/ ~WordULt(r1, b)
    THEN [quot |-> WordShl1(s.quot, 1), rem |-> WordSub(r1, b)]
    ELSE [quot |-> WordShl1(s.quot, 0), rem |-> r1]

DivBit(b, s, bit) == DivBitSelect(b, s, WordShl1(s.rem, bit))

\* Eight steps: one byte x of the dividend, most significant bit first.
RECURSIVE DivBits(_, _, _, _)
DivBits(b, s, x, k) ==
    IF s.rem = WordZero /\ s.quot = WordZero /\ x = 0 THEN s
    ELSE IF k = 0 THEN s
    ELSE DivBits(b, DivBit(b, s, (x \div (2 ^ (k - 1))) % 2), x % (2 ^ (k - 1)), k - 1)

DivByte(b, s, x) == DivBits(b, s, x, 8)

RECURSIVE DivBytes(_, _, _)
DivBytes(a, b, i) ==
    IF i > NBytes THEN [quot |-> WordZero, rem |-> WordZero]
    ELSE DivByte(b, DivBytes(a, b, i + 1), a[i])

\* Unsigned quotient and remainder, b # 0.
WordUDivMod(a, b) == DivBytes(a, b, 1)

WordAbs(a) == IF SignBit(a) THEN WordNeg(a) ELSE a

\* The magnitude w with the sign applied.
WordSigned(neg, w) == IF neg THEN WordNeg(w) ELSE w

\* C's signed division, truncating toward zero; b # 0 and not INT64_MIN / -1.
WordSDiv(a, b) ==
    WordSigned(SignBit(a) # SignBit(b), WordUDivMod(WordAbs(a), WordAbs(b)).quot)

\* C's signed remainder: the sign follows the dividend.
WordSRem(a, b) ==
    WordSigned(SignBit(a), WordUDivMod(WordAbs(a), WordAbs(b)).rem)

\* ------------------------------------------------------------ Janet values

\* A Janet value is a record tagged by its kind (janet_type). A number is a
\* double: NaN, an infinity, or a finite value given by its sign, the integer
\* part of its magnitude (below 2^64) and whether a fractional part is
\* present. A string is its characters. An abstract value is a pointer into the heap.
Nil == [kind |-> "nil"]

Number(neg, mag, frac) ==
    [kind |-> "number", cls |-> "finite", neg |-> neg, mag |-> mag, frac |-> frac]

NumberOfInt(n) == Number(n < 0, WordOfNat(IF n < 0 THEN -n ELSE n), FALSE)

NaN == [kind |-> "number", cls |-> "nan", neg |-> FALSE, mag |-> WordZero, frac |-> FALSE]

Infinity(neg) ==
    [kind |-> "number", cls |-> "inf", neg |-> neg, mag |-> WordZero, frac |-> FALSE]

String(chars) == [kind |-> "string", chars |-> chars]

Keyword(name) == [kind |-> "keyword", name |-> name]

Boolean(b) == [kind |-> "boolean", val |-> b]

Abstract(p) == [kind |-> "abstract", ptr |-> p]

\* The two descriptors' identities, and a descriptor of some other abstract type.
S64 == "core/s64"

U64 == "core/u64"

IntTypes == {S64, U64}

Box(type, data) == [type |-> type, data |-> data]

\* FabsLeMax with `<` for `<=`.
FabsLtMax(d) == d.cls = "finite" /\ WordULt(d.mag, MAX_INT_IN_DBL)

\* fabs(dbl) <= MAX_INT_IN_DBL
FabsLeMax(d) ==
    /\ d.cls = "finite"
    /\ \/ WordULt(d.mag, MAX_INT_IN_DBL)
       \/ d.mag = MAX_INT_IN_DBL /\ ~d.frac

\* dbl >= 0 (false for NaN, true for -0.0)
DblGeZero(d) ==
    /\ d.cls # "nan"
    /\ \/ ~d.neg
       \/ d.cls = "finite" /\ d.mag = WordZero /\ ~d.frac

\* dbl <= MAX_INT_IN_DBL (false for NaN, true for every negative value)
DblLeMax(d) ==
    /\ d.cls # "nan"
    /\ d.neg \/ FabsLeMax(d)

\* (int64_t) dbl and (uint64_t) dbl: the fractional part is discarded.
DblToWord(d) == IF d.neg THEN WordNeg(d.mag) ELSE d.mag

DigitOf ==
    [c \in {"0", "1", "2", "3", "4", "5", "6", "7", "8", "9"} |->
        CASE c = "0" -> 0 [] c = "1" -> 1 [] c = "2" -> 2 [] c = "3" -> 3
          [] c = "4" -> 4 [] c = "5" -> 5 [] c = "6" -> 6 [] c = "7" -> 7
          [] c = "8" -> 8 [] c = "9" -> 9]

\* UINT64_MAX / 10 = 0x1999999999999999
UMaxDiv10 == [i \in ByteIdx |-> IF i = NBytes THEN 25 ELSE 153]

\* Would acc * 10 + d exceed UINT64_MAX?
ScanOverflows(acc, d) == WordULt(UMaxDiv10, acc) \/ (acc = UMaxDiv10 /\ d > 5)

\* Decimal digits chars[i..] accumulated onto acc; fails on a character that
\* is no digit and on a magnitude above UINT64_MAX.
RECURSIVE ScanDigits(_, _, _)
ScanDigits(chars, i, acc) ==
    IF i > Len(chars) THEN [ok |-> TRUE, val |-> acc]
    ELSE IF chars[i] \notin DOMAIN DigitOf THEN [ok |-> FALSE, val |-> WordZero]
    ELSE IF ScanOverflows(acc, DigitOf[chars[i]]) THEN [ok |-> FALSE, val |-> WordZero]
    ELSE ScanDigits(chars, i + 1,
                    WordAdd(WordMul(acc, WordOfNat(10)), WordOfNat(DigitOf[chars[i]])))

\* A base-10 literal with an optional '-': its sign and magnitude.
ScanSigned(chars, neg, first) ==
    IF first > Len(chars) THEN [ok |-> FALSE, neg |-> neg, val |-> WordZero]
    ELSE ScanDigits(chars, first, WordZero) @@ [neg |-> neg]

ScanNumber(chars) ==
    IF Len(chars) >= 1 /\ chars[1] = "-"
    THEN ScanSigned(chars, TRUE, 2)
    ELSE ScanSigned(chars, FALSE, 1)

\* The scanned literal r must lie in INT64_MIN..INT64_MAX.
ScanInt64Range(r) ==
    IF r.ok /\ (IF r.neg THEN ~WordULt(INT64_MIN, r.val) ELSE WordULt(r.val, INT64_MIN))
    THEN [ok |-> TRUE, val |-> WordSigned(r.neg, r.val)]
    ELSE [ok |-> FALSE, val |-> WordZero]

janet_scan_int64(chars) == ScanInt64Range(ScanNumber(chars))

\* The scanned literal r must lie in 0..UINT64_MAX.
ScanUint64Range(r) ==
    IF r.ok /\ ~r.neg
    THEN [ok |-> TRUE, val |-> r.val]
    ELSE [ok |-> FALSE, val |-> WordZero]

janet_scan_uint64(chars) == ScanUint64Range(ScanNumber(chars))

\* ------------------------------------------------------- conversion layer

Converted(w) == [ok |-> TRUE, val |-> w]

\* The conversion reached janet_panic("bad s64 initializer") (or u64).
BadInitializer == [ok |-> FALSE, val |-> WordZero]

\* `if (janet_scan_...(str, len, &value)) return value; break;`
OfScan(r) == IF r.ok THEN Converted(r.val) ELSE BadInitializer

\* IsIntBox accepting a box of the signed descriptor alone.
IsSignedBox(heap, x) == x.ptr \in DOMAIN heap /\ heap[x.ptr].type = S64

\* Is the abstract value a box of one of the two integer descriptors?
IsIntBox(heap, x) == x.ptr \in DOMAIN heap /\ heap[x.ptr].type \in IntTypes

janet_unwrap_s64(heap, x) ==
    CASE x.kind = "number" ->
            IF FabsLeMax(x) THEN Converted(DblToWord(x)) ELSE BadInitializer
      [] x.kind = "string" -> OfScan(janet_scan_int64(x.chars))
      [] x.kind = "abstract" ->
            IF IsIntBox(heap, x) THEN Converted(heap[x.ptr].data) ELSE BadInitializer
      [] OTHER -> BadInitializer

\* janet_unwrap_u64 with the number test of janet_unwrap_s64.
UnwrapU64BySignedRule(heap, x) ==
    CASE x.kind = "number" ->
            IF FabsLeMax(x) THEN Converted(DblToWord(x)) ELSE BadInitializer
      [] x.kind = "string" -> OfScan(janet_scan_uint64(x.chars))
      [] x.kind = "abstract" ->
            IF IsIntBox(heap, x) THEN Converted(heap[x.ptr].data) ELSE BadInitializer
      [] OTHER -> BadInitializer

janet_unwrap_u64(heap, x) ==
    CASE x.kind = "number" ->
            IF DblGeZero(x) /\ DblLeMax(x) THEN Converted(DblToWord(x)) ELSE BadInitializer
      [] x.kind = "string" -> OfScan(janet_scan_uint64(x.chars))
      [] x.kind = "abstract" ->
            IF IsIntBox(heap, x) THEN Converted(heap[x.ptr].data) ELSE BadInitializer
      [] OTHER -> BadInitializer

\* janet_unwrap_##type
Unwrap(type, heap, x) ==
    IF type = S64 THEN janet_unwrap_s64(heap, x) ELSE janet_unwrap_u64(heap, x)

\* The message of the conversion's panic.
BadInitializerMsg(type) ==
    IF type = S64 THEN "bad s64 initializer" ELSE "bad u64 initializer"

\* ------------------------------------------- native operators and the build

\* What the C standard leaves undefined is decided by the build. The two
\* optimised builds wrap signed overflow and mask shift counts to six bits;
\* x86_64's idiv raises SIGFPE on a zero divisor and on INT64_MIN by -1,
\* aarch64's sdiv yields 0 and INT64_MIN; a sanitized (trapping) build aborts
\* at every undefined operation.
Builds == {"x86_64", "aarch64", "sanitized"}

Value(w) == [trap |-> FALSE, val |-> w]

Trap == [trap |-> TRUE, val |-> WordZero]

\* Undefined behaviour whose result on the optimised builds is w.
Undefined(build, w) == IF build = "sanitized" THEN Trap ELSE Value(w)

\* Does the signed product a * b leave INT64_MIN..INT64_MAX?
SMulOverflows(a, b) ==
    IF a = WordZero \/ b = WordZero THEN FALSE
    ELSE IF a = WordAllOnes THEN b = INT64_MIN
    ELSE IF b = WordAllOnes THEN a = INT64_MIN
    ELSE WordSDiv(WordMul(a, b), b) # a

\* The shift count as the hardware reads it: its low six bits.
MaskedCount(v) == v[1] % 64

\* Is the count in 0..63?
CountInRange(v) == WordULt(v, WordOfNat(64))

\* `acc oper= v` on uint64_t operands: defined except for a shift count >= 64.
NativeU64(oper, build, acc, v) ==
    CASE oper = "+" -> Value(WordAdd(acc, v))
      [] oper = "-" -> Value(WordSub(acc, v))
      [] oper = "*" -> Value(WordMul(acc, v))
      [] oper \in {"&", "|", "^"} -> Value(WordBitOp(oper, acc, v))
      [] oper = "<<" ->
            IF CountInRange(v) THEN Value(WordShl(acc, MaskedCount(v)))
            ELSE Undefined(build, WordShl(acc, MaskedCount(v)))
      [] oper = ">>" ->
            IF CountInRange(v) THEN Value(WordShr(acc, MaskedCount(v), 0))
            ELSE Undefined(build, WordShr(acc, MaskedCount(v), 0))
      [] oper = "/" ->
            IF v # WordZero THEN Value(WordUDivMod(acc, v).quot)
            ELSE IF build = "aarch64" THEN Value(WordZero) ELSE Trap
      [] oper = "%" ->
            IF v # WordZero THEN Value(WordUDivMod(acc, v).rem)
            ELSE IF build = "aarch64" THEN Value(acc) ELSE Trap

\* `acc oper= v` on int64_t operands: overflow, an out-of-range or negative
\* shift and a zero divisor are undefined; >> of a negative value is the
\* arithmetic shift.
NativeS64(oper, build, acc, v) ==
    CASE oper = "+" ->
            LET r == WordAdd(acc, v)
            IN  IF SignBit(acc) = SignBit(v) /\ SignBit(r) # SignBit(acc)
                THEN Undefined(build, r) ELSE Value(r)
      [] oper = "-" ->
            LET r == WordSub(acc, v)
            IN  IF SignBit(acc) # SignBit(v) /\ SignBit(r) # SignBit(acc)
                THEN Undefined(build, r) ELSE Value(r)
      [] oper = "*" ->
            IF SMulOverflows(acc, v) THEN Undefined(build, WordMul(acc, v))
            ELSE Value(WordMul(acc, v))
      [] oper \in {"&", "|", "^"} -> Value(WordBitOp(oper, acc, v))
      [] oper = "<<" ->
            LET r == WordShl(acc, MaskedCount(v))
            IN  IF CountInRange(v) /\ ~SignBit(acc) /\ ~SignBit(r)
                   /\ WordShr(r, MaskedCount(v), 0) = acc
                THEN Value(r) ELSE Undefined(build, r)
      [] oper = ">>" ->
            LET r == WordShr(acc, MaskedCount(v), IF SignBit(acc) THEN 1 ELSE 0)
            IN  IF CountInRange(v) THEN Value(r) ELSE Undefined(build, r)
      [] oper = "/" ->
            IF v = WordZero THEN (IF build = "aarch64" THEN Value(WordZero) ELSE Trap)
            ELSE IF acc = INT64_MIN /\ v = WordAllOnes
                 THEN (IF build = "aarch64" THEN Value(INT64_MIN) ELSE Trap)
            ELSE Value(WordSDiv(acc, v))
      [] oper = "%" ->
            IF v = WordZero THEN (IF build = "aarch64" THEN Value(acc) ELSE Trap)
            ELSE IF acc = INT64_MIN /\ v = WordAllOnes
                 THEN (IF build = "aarch64" THEN Value(WordZero) ELSE Trap)
            ELSE Value(WordSRem(acc, v))

\* `*box oper##= value` for T = int64_t or uint64_t.
Native(type, oper, build, acc, v) ==
    IF type = S64 THEN NativeS64(oper, build, acc, v) ELSE NativeU64(oper, build, acc, v)

\* NativeCompare with the signed order for both types.
NativeCompareSigned(type, oper, v1, v2) ==
    CASE oper = "<" -> WordSLt(v1, v2)
      [] oper = ">" -> WordSLt(v2, v1)
      [] oper = "<=" -> ~WordSLt(v2, v1)
      [] oper = ">=" -> ~WordSLt(v1, v2)
      [] oper = "==" -> v1 = v2
      [] oper = "!=" -> v1 # v2

\* `v1 oper v2` of COMPMETHOD, in the order of T.
NativeCompare(type, oper, v1, v2) ==
    LET lt(a, b) == IF type = S64 THEN WordSLt(a, b) ELSE WordULt(a, b)
    IN  CASE oper = "<" -> lt(v1, v2)
          [] oper = ">" -> lt(v2, v1)
          [] oper = "<=" -> ~lt(v2, v1)
          [] oper = ">=" -> ~lt(v1, v2)
          [] oper = "==" -> v1 = v2
          [] oper = "!=" -> v1 # v2

\* ------------------------------------------------------------- outcomes

\* The outcome of one call. status: "return", "panic" (janet_panic: a
\* non-local exit to the host) or "trap" (the process is killed at an
\* undefined operation). at: the C index of the operand being processed when
\* the call failed (-1: none). alloc: whether janet_abstract was called; box:
\* what the allocated cell holds when the call ends (<< >>: never written).
\* ret: the value returned when it is not the allocated box.
Unwritten == << >>

Returned(box) ==
    [status |-> "return", msg |-> "", at |-> -1, alloc |-> TRUE, box |-> box, ret |-> Nil]

ReturnedValue(v) ==
    [status |-> "return", msg |-> "", at |-> -1, alloc |-> FALSE, box |-> Unwritten, ret |-> v]

Panicked(msg, at, alloc, box) ==
    [status |-> "panic", msg |-> msg, at |-> at, alloc |-> alloc, box |-> box, ret |-> Nil]

Trapped(at, box) ==
    [status |-> "trap", msg |-> "", at |-> at, alloc |-> TRUE, box |-> box, ret |-> Nil]

ArityMsg == "arity mismatch"

DivByZeroMsg == "division by zero"

OverflowMsg == "INT64_MIN divided by -1"

\* janet_fixarity(argc, fix): does the check pass?
janet_fixarity(argc, fix) == argc = fix

\* janet_arity(argc, min, max), max = -1 for no upper limit.
janet_arity(argc, min, max) == argc >= min /\ (max = -1 \/ argc <= max)

ArityPanic == Panicked(ArityMsg, -1, FALSE, Unwritten)

\* ------------------------------------------------------------- handlers

\* In the handlers below an operator named ...With takes, as its last
\* parameter, the value the C code has just computed (a converted operand c,
\* the result n of a native operation) and continues from there.

\* cfun_it_s64_new / cfun_it_u64_new: the argument is converted before
\* janet_wrap_##type allocates the box.
NewWith(type, c) ==
    IF c.ok THEN Returned(c.val)
    ELSE Panicked(BadInitializerMsg(type), 0, FALSE, Unwritten)

cfun_it_s64_new(heap, argv) ==
    IF ~janet_fixarity(Len(argv), 1) THEN ArityPanic
    ELSE NewWith(S64, janet_unwrap_s64(heap, argv[1]))

cfun_it_u64_new(heap, argv) ==
    IF ~janet_fixarity(Len(argv), 1) THEN ArityPanic
    ELSE NewWith(U64, janet_unwrap_u64(heap, argv[1]))

\* `*box = janet_unwrap_##type(argv[0])`, the first statement after the
\* allocation in every fold handler: the seed, or the panic.
Seed(type, c) ==
    IF c.ok THEN Returned(c.val)
    ELSE Panicked(BadInitializerMsg(type), 0, TRUE, Unwritten)

\* The loop of OPMETHOD from operand i (argv[i] here is argv[i-1] in C); o
\* is the outcome so far, o.box the box.
RECURSIVE OpLoop(_, _, _, _, _, _, _)
OpApplied(type, oper, build, heap, argv, i, o, n) ==
    IF n.trap THEN Trapped(i - 1, o.box)
    ELSE OpLoop(type, oper, build, heap, argv, i + 1, Returned(n.val))

OpOperand(type, oper, build, heap, argv, i, o, c) ==
    IF ~c.ok THEN Panicked(BadInitializerMsg(type), i - 1, TRUE, o.box)
    ELSE OpApplied(type, oper, build, heap, argv, i, o,
                   Native(type, oper, build, o.box, c.val))

OpLoop(type, oper, build, heap, argv, i, o) ==
    IF o.status # "return" \/ i > Len(argv) THEN o
    ELSE OpOperand(type, oper, build, heap, argv, i, o, Unwrap(type, heap, argv[i]))

OPMETHOD(type, oper, build, heap, argv) ==
    IF ~janet_arity(Len(argv), 2, -1) THEN ArityPanic
    ELSE OpLoop(type, oper, build, heap, argv, 2, Seed(type, Unwrap(type, heap, argv[1])))

\* `*box oper##= value` ending a reverse handler: the box holds acc.
InvertApplied(acc, n) == IF n.trap THEN Trapped(0, acc) ELSE Returned(n.val)

\* OPMETHODINVERT after `*box = janet_unwrap_##type(argv[1])` gave c1.
OpInvertOperand(type, oper, build, c1, c0) ==
    IF ~c0.ok THEN Panicked(BadInitializerMsg(type), 0, TRUE, c1.val)
    ELSE InvertApplied(c1.val, Native(type, oper, build, c1.val, c0.val))

OpInvertSeed(type, oper, build, heap, argv, c1) ==
    IF ~c1.ok THEN Panicked(BadInitializerMsg(type), 1, TRUE, Unwritten)
    ELSE OpInvertOperand(type, oper, build, c1, Unwrap(type, heap, argv[1]))

\* OPMETHODINVERT taking its two operands in the order given.
OpMethodNotInverted(type, oper, build, heap, argv) ==
    IF ~janet_fixarity(Len(argv), 2) THEN ArityPanic
    ELSE OpLoop(type, oper, build, heap, argv, 2, Seed(type, Unwrap(type, heap, argv[1])))

OPMETHODINVERT(type, oper, build, heap, argv) ==
    IF ~janet_fixarity(Len(argv), 2) THEN ArityPanic
    ELSE OpInvertSeed(type, oper, build, heap, argv, Unwrap(type, heap, argv[2]))

\* The loop of DIVMETHOD (signed = FALSE) and DIVMETHOD_SIGNED (signed = TRUE).
RECURSIVE DivLoop(_, _, _, _, _, _, _, _)
DivApplied(signed, type, oper, build, heap, argv, i, o, n) ==
    IF n.trap THEN Trapped(i - 1, o.box)
    ELSE DivLoop(signed, type, oper, build, heap, argv, i + 1, Returned(n.val))

\* DivOperand with the check `value == 0` left out.
DivOperandNoZeroCheck(signed, type, oper, build, heap, argv, i, o, c) ==
    IF ~c.ok THEN Panicked(BadInitializerMsg(type), i - 1, TRUE, o.box)
    ELSE IF signed /\ c.val = WordAllOnes /\ o.box = INT64_MIN
         THEN Panicked(OverflowMsg, i - 1, TRUE, o.box)
    ELSE DivApplied(signed, type, oper, build, heap, argv, i, o,
                    Native(type, oper, build, o.box, c.val))

\* DivOperand with the INT64_MIN check of the signed macros left out.
DivOperandNoOverflowCheck(signed, type, oper, build, heap, argv, i, o, c) ==
    IF ~c.ok THEN Panicked(BadInitializerMsg(type), i - 1, TRUE, o.box)
    ELSE IF c.val = WordZero THEN Panicked(DivByZeroMsg, i - 1, TRUE, o.box)
    ELSE DivApplied(signed, type, oper, build, heap, argv, i, o,
                    Native(type, oper, build, o.box, c.val))

DivOperand(signed, type, oper, build, heap, argv, i, o, c) ==
    IF ~c.ok THEN Panicked(BadInitializerMsg(type), i - 1, TRUE, o.box)
    ELSE IF c.val = WordZero THEN Panicked(DivByZeroMsg, i - 1, TRUE, o.box)
    ELSE IF signed /\ c.val = WordAllOnes /\ o.box = INT64_MIN
         THEN Panicked(OverflowMsg, i - 1, TRUE, o.box)
    ELSE DivApplied(signed, type, oper, build, heap, argv, i, o,
                    Native(type, oper, build, o.box, c.val))

DivLoop(signed, type, oper, build, heap, argv, i, o) ==
    IF o.status # "return" \/ i > Len(argv) THEN o
    ELSE DivOperand(signed, type, oper, build, heap, argv, i, o,
                    Unwrap(type, heap, argv[i]))

DIVMETHOD(type, oper, build, heap, argv) ==
    IF ~janet_arity(Len(argv), 2, -1) THEN ArityPanic
    ELSE DivLoop(FALSE, type, oper, build, heap, argv, 2,
                 Seed(type, Unwrap(type, heap, argv[1])))

DIVMETHOD_SIGNED(type, oper, build, heap, argv) ==
    IF ~janet_arity(Len(argv), 2, -1) THEN ArityPanic
    ELSE DivLoop(TRUE, type, oper, build, heap, argv, 2,
                 Seed(type, Unwrap(type, heap, argv[1])))

\* DIVMETHODINVERT (signed = FALSE) and DIVMETHODINVERT_SIGNED (signed =
\* TRUE) after `*box = janet_unwrap_##type(argv[1])` gave c1.
DivInvertOperand(signed, type, oper, build, c1, c0) ==
    IF ~c0.ok THEN Panicked(BadInitializerMsg(type), 0, TRUE, c1.val)
    ELSE IF c0.val = WordZero THEN Panicked(DivByZeroMsg, 0, TRUE, c1.val)
    ELSE IF signed /\ c0.val = WordAllOnes /\ c1.val = INT64_MIN
         THEN Panicked(OverflowMsg, 0, TRUE, c1.val)
    ELSE InvertApplied(c1.val, Native(type, oper, build, c1.val, c0.val))

DivInvertSeed(signed, type, oper, build, heap, argv, c1) ==
    IF ~c1.ok THEN Panicked(BadInitializerMsg(type), 1, TRUE, Unwritten)
    ELSE DivInvertOperand(signed, type, oper, build, c1, Unwrap(type, heap, argv[1]))

DIVMETHODINVERT(type, oper, build, heap, argv) ==
    IF ~janet_fixarity(Len(argv), 2) THEN ArityPanic
    ELSE DivInvertSeed(FALSE, type, oper, build, heap, argv, Unwrap(type, heap, argv[2]))

DIVMETHODINVERT_SIGNED(type, oper, build, heap, argv) ==
    IF ~janet_fixarity(Len(argv), 2) THEN ArityPanic
    ELSE DivInvertSeed(TRUE, type, oper, build, heap, argv, Unwrap(type, heap, argv[2]))

\* COMPMETHOD after `T v1 = janet_unwrap_##type(argv[0])` gave c1.
CompSecond(type, oper, c1, c2) ==
    IF ~c2.ok THEN Panicked(BadInitializerMsg(type), 1, FALSE, Unwritten)
    ELSE ReturnedValue(Boolean(NativeCompare(type, oper, c1.val, c2.val)))

CompFirst(type, oper, heap, argv, c1) ==
    IF ~c1.ok THEN Panicked(BadInitializerMsg(type), 0, FALSE, Unwritten)
    ELSE CompSecond(type, oper, c1, Unwrap(type, heap, argv[2]))

\* COMPMETHOD with the arity check of the fold macros.
COMPMETHODAtLeastTwo(type, oper, heap, argv) ==
    IF ~janet_arity(Len(argv), 2, -1) THEN ArityPanic
    ELSE CompFirst(type, oper, heap, argv, Unwrap(type, heap, argv[1]))

COMPMETHOD(type, oper, heap, argv) ==
    IF ~janet_fixarity(Len(argv), 2) THEN ArityPanic
    ELSE CompFirst(type, oper, heap, argv, Unwrap(type, heap, argv[1]))

\* ModAdjust with the test `x < 0` left out: the dividend is added or
\* subtracted whatever the sign of the remainder.
ModAdjustAlways(build, x, a) ==
    IF x.trap THEN x
    ELSE IF WordSLt(a, WordZero)
    THEN NativeS64("-", build, x.val, a)
    ELSE NativeS64("+", build, x.val, a)

\* `if (x < 0) x = (a < 0) ? x - a : x + a;` for the native remainder x
\* (undefined already if x.trap) of the dividend a.
ModAdjust(build, x, a) ==
    IF x.trap THEN x
    ELSE IF WordSLt(x.val, WordZero)
    THEN (IF WordSLt(a, WordZero)
          THEN NativeS64("-", build, x.val, a)
          ELSE NativeS64("+", build, x.val, a))
    ELSE x

\* The loop of cfun_it_s64_mod.
RECURSIVE ModLoop(_, _, _, _, _)
ModApplied(build, heap, argv, i, o, y) ==
    IF y.trap THEN Trapped(i - 1, o.box)
    ELSE ModLoop(build, heap, argv, i + 1, Returned(y.val))

ModOperand(build, heap, argv, i, o, c) ==
    IF ~c.ok THEN Panicked(BadInitializerMsg(S64), i - 1, TRUE, o.box)
    ELSE IF c.val = WordZero THEN Panicked(DivByZeroMsg, i - 1, TRUE, o.box)
    ELSE ModApplied(build, heap, argv, i, o,
                    ModAdjust(build, NativeS64("%", build, o.box, c.val), o.box))

ModLoop(build, heap, argv, i, o) ==
    IF o.status # "return" \/ i > Len(argv) THEN o
    ELSE ModOperand(build, heap, argv, i, o, janet_unwrap_s64(heap, argv[i]))

cfun_it_s64_mod(build, heap, argv) ==
    IF ~janet_arity(Len(argv), 2, -1) THEN ArityPanic
    ELSE ModLoop(build, heap, argv, 2, Seed(S64, janet_unwrap_s64(heap, argv[1])))

\* cfun_it_s64_modi: no zero check and no INT64_MIN check precede
\* op1 % op2, the operands are taken in the order given, and the box is
\* written only at the end.
ModiApplied(y) == IF y.trap THEN Trapped(1, Unwritten) ELSE Returned(y.val)

ModiSecond(build, op1, op2) ==
    IF ~op2.ok THEN Panicked(BadInitializerMsg(S64), 1, TRUE, Unwritten)
    ELSE ModiApplied(ModAdjust(build, NativeS64("%", build, op1.val, op2.val), op1.val))

ModiFirst(build, heap, argv, op1) ==
    IF ~op1.ok THEN Panicked(BadInitializerMsg(S64), 0, TRUE, Unwritten)
    ELSE ModiSecond(build, op1, janet_unwrap_s64(heap, argv[2]))

cfun_it_s64_modi(build, heap, argv) ==
    IF ~janet_fixarity(Len(argv), 2) THEN ArityPanic
    ELSE ModiFirst(build, heap, argv, janet_unwrap_s64(heap, argv[1]))

\* ------------------------------------------------- instances and tables

Instance(cfun, macro, type, oper) ==
    [cfun |-> cfun, macro |-> macro, type |-> type, oper |-> oper]

\* The macro instantiations, and the two handlers written out by hand.
Instances ==
    { Instance("cfun_it_s64_mod", "cfun_it_s64_mod", S64, "mod"),
      Instance("cfun_it_s64_modi", "cfun_it_s64_modi", S64, "mod"),
      Instance("cfun_it_s64_add", "OPMETHOD", S64, "+"),
      Instance("cfun_it_s64_sub", "OPMETHOD", S64, "-"),
      Instance("cfun_it_s64_subi", "OPMETHODINVERT", S64, "-"),
      Instance("cfun_it_s64_mul", "OPMETHOD", S64, "*"),
      Instance("cfun_it_s64_div", "DIVMETHOD_SIGNED", S64, "/"),
      Instance("cfun_it_s64_rem", "DIVMETHOD_SIGNED", S64, "%"),
      Instance("cfun_it_s64_divi", "DIVMETHODINVERT_SIGNED", S64, "/"),
      Instance("cfun_it_s64_remi", "DIVMETHODINVERT_SIGNED", S64, "%"),
      Instance("cfun_it_s64_and", "OPMETHOD", S64, "&"),
      Instance("cfun_it_s64_or", "OPMETHOD", S64, "|"),
      Instance("cfun_it_s64_xor", "OPMETHOD", S64, "^"),
      Instance("cfun_it_s64_lshift", "OPMETHOD", S64, "<<"),
      Instance("cfun_it_s64_rshift", "OPMETHOD", S64, ">>"),
      Instance("cfun_it_s64_lt", "COMPMETHOD", S64, "<"),
      Instance("cfun_it_s64_gt", "COMPMETHOD", S64, ">"),
      Instance("cfun_it_s64_le", "COMPMETHOD", S64, "<="),
      Instance("cfun_it_s64_ge", "COMPMETHOD", S64, ">="),
      Instance("cfun_it_s64_eq", "COMPMETHOD", S64, "=="),
      Instance("cfun_it_s64_ne", "COMPMETHOD", S64, "!="),
      Instance("cfun_it_u64_add", "OPMETHOD", U64, "+"),
      Instance("cfun_it_u64_sub", "OPMETHOD", U64, "-"),
      Instance("cfun_it_u64_subi", "OPMETHODINVERT", U64, "-"),
      Instance("cfun_it_u64_mul", "OPMETHOD", U64, "*"),
      Instance("cfun_it_u64_div", "DIVMETHOD", U64, "/"),
      Instance("cfun_it_u64_mod", "DIVMETHOD", U64, "%"),
      Instance("cfun_it_u64_divi", "DIVMETHODINVERT", U64, "/"),
      Instance("cfun_it_u64_modi", "DIVMETHODINVERT", U64, "%"),
      Instance("cfun_it_u64_and", "OPMETHOD", U64, "&"),
      Instance("cfun_it_u64_or", "OPMETHOD", U64, "|"),
      Instance("cfun_it_u64_xor", "OPMETHOD", U64, "^"),
      Instance("cfun_it_u64_lshift", "OPMETHOD", U64, "<<"),
      Instance("cfun_it_u64_rshift", "OPMETHOD", U64, ">>"),
      Instance("cfun_it_u64_lt", "COMPMETHOD", U64, "<"),
      Instance("cfun_it_u64_gt", "COMPMETHOD", U64, ">"),
      Instance("cfun_it_u64_le", "COMPMETHOD", U64, "<="),
      Instance("cfun_it_u64_ge", "COMPMETHOD", U64, ">="),
      Instance("cfun_it_u64_eq", "COMPMETHOD", U64, "=="),
      Instance("cfun_it_u64_ne", "COMPMETHOD", U64, "!=") }

InstanceOf(cfun) == CHOOSE inst \in Instances : inst.cfun = cfun

it_s64_methods ==
    << <<"+", "cfun_it_s64_add">>,
       <<"r+", "cfun_it_s64_add">>,
       <<"-", "cfun_it_s64_sub">>,
       <<"r-", "cfun_it_s64_subi">>,
       <<"*", "cfun_it_s64_mul">>,
       <<"r*", "cfun_it_s64_mul">>,
       <<"/", "cfun_it_s64_div">>,
       <<"r/", "cfun_it_s64_divi">>,
       <<"mod", "cfun_it_s64_mod">>,
       <<"rmod", "cfun_it_s64_modi">>,
       <<"%", "cfun_it_s64_rem">>,
       <<"r%", "cfun_it_s64_remi">>,
       <<"<", "cfun_it_s64_lt">>,
       <<">", "cfun_it_s64_gt">>,
       <<"<=", "cfun_it_s64_le">>,
       <<">=", "cfun_it_s64_ge">>,
       <<"=", "cfun_it_s64_eq">>,
       <<"!=", "cfun_it_s64_ne">>,
       <<"&", "cfun_it_s64_and">>,
       <<"r&", "cfun_it_s64_and">>,
       <<"|", "cfun_it_s64_or">>,
       <<"r|", "cfun_it_s64_or">>,
       <<"^", "cfun_it_s64_xor">>,
       <<"r^", "cfun_it_s64_xor">>,
       <<"<<", "cfun_it_s64_lshift">>,
       <<">>", "cfun_it_s64_rshift">> >>

it_u64_methods ==
    << <<"+", "cfun_it_u64_add">>,
       <<"r+", "cfun_it_u64_add">>,
       <<"-", "cfun_it_u64_sub">>,
       <<"r-", "cfun_it_u64_subi">>,
       <<"*", "cfun_it_u64_mul">>,
       <<"r*", "cfun_it_u64_mul">>,
       <<"/", "cfun_it_u64_div">>,
       <<"r/", "cfun_it_u64_divi">>,
       <<"mod", "cfun_it_u64_mod">>,
       <<"rmod", "cfun_it_u64_modi">>,
       <<"%", "cfun_it_u64_mod">>,
       <<"r%", "cfun_it_u64_modi">>,
       <<"<", "cfun_it_u64_lt">>,
       <<">", "cfun_it_u64_gt">>,
       <<"<=", "cfun_it_u64_le">>,
       <<">=", "cfun_it_u64_ge">>,
       <<"=", "cfun_it_u64_eq">>,
       <<"!=", "cfun_it_u64_ne">>,
       <<"&", "cfun_it_u64_and">>,
       <<"r&", "cfun_it_u64_and">>,
       <<"|", "cfun_it_u64_or">>,
       <<"r|", "cfun_it_u64_or">>,
       <<"^", "cfun_it_u64_xor">>,
       <<"r^", "cfun_it_u64_xor">>,
       <<"<<", "cfun_it_u64_lshift">>,
       <<">>", "cfun_it_u64_rshift">> >>

\* janet_getmethod: the handler of the first entry whose name is `name`,
\* or no match.
RECURSIVE GetMethodFrom(_, _, _)
GetMethodFrom(name, methods, i) ==
    IF i > Len(methods) THEN [found |-> FALSE, cfun |-> ""]
    ELSE IF methods[i][1] = name THEN [found |-> TRUE, cfun |-> methods[i][2]]
    ELSE GetMethodFrom(name, methods, i + 1)

janet_getmethod(name, methods) == GetMethodFrom(name, methods, 1)

it_s64_get(key) ==
    IF key.kind # "keyword" THEN [found |-> FALSE, cfun |-> ""]
    ELSE janet_getmethod(key.name, it_s64_methods)

\* it_u64_get looking the name up in the signed table.
U64GetFromSignedTable(key) ==
    IF key.kind # "keyword" THEN [found |-> FALSE, cfun |-> ""]
    ELSE janet_getmethod(key.name, it_s64_methods)

it_u64_get(key) ==
    IF key.kind # "keyword" THEN [found |-> FALSE, cfun |-> ""]
    ELSE janet_getmethod(key.name, it_u64_methods)

\* The descriptors: the routine installed in each slot.
janet_s64_type ==
    [name |-> S64, get |-> "it_s64_get", put |-> "NULL",
     marshal |-> "int64_marshal", unmarshal |-> "int64_unmarshal",
     tostring |-> "it_s64_tostring", compare |-> "janet_int64_compare",
     hash |-> "janet_int64_hash"]

janet_u64_type ==
    [name |-> U64, get |-> "it_u64_get", put |-> "NULL",
     marshal |-> "int64_marshal", unmarshal |-> "int64_unmarshal",
     tostring |-> "it_u64_tostring", compare |-> "janet_uint64_compare",
     hash |-> "janet_int64_hash"]

Descriptor(type) == IF type = S64 THEN janet_s64_type ELSE janet_u64_type

\* The get-member routine of a descriptor, applied.
Get(type, key) ==
    IF Descriptor(type).get = "it_s64_get" THEN it_s64_get(key) ELSE it_u64_get(key)

\* The names of a table, and every (type, name, handler) binding reachable
\* through the two get-member routines.
MethodNames(methods) == {methods[i][1] : i \in DOMAIN methods}

Bindings ==
    { [type |-> t, key |-> k, cfun |-> Get(t, Keyword(k)).cfun] :
        t \in IntTypes, k \in MethodNames(it_s64_methods) \cup MethodNames(it_u64_methods) }

\* it_cfuns: the two constructors bound in the environment.
it_cfuns ==
    { [type |-> S64, key |-> "int/s64", cfun |-> "cfun_it_s64_new"],
      [type |-> U64, key |-> "int/u64", cfun |-> "cfun_it_u64_new"] }

\* ------------------------------------------------- hash, compare, marshal

Int32(n) == [kind |-> "int32", val |-> n]

\* A 32-bit word (four bytes, least significant first) read as an int32_t.
Int32OfBytes(b1, b2, b3, b4) ==
    b1 + 256 * b2 + 65536 * b3 + 16777216 * (IF b4 >= 128 THEN b4 - 256 ELSE b4)

\* janet_int64_hash returning words[0] alone.
HashLowWord(p) == Int32OfBytes(p[1], p[2], p[3], p[4])

\* words[0] ^ words[1] over the payload p
janet_int64_hash(p) ==
    LET x(i) == ByteBitOp("^", p[i], p[i + 4], 8)
    IN  Int32OfBytes(x(1), x(2), x(3), x(4))

ThreeWay(eq, lt) == IF eq THEN 0 ELSE IF lt THEN -1 ELSE 1

janet_int64_compare(p1, p2) == ThreeWay(p1 = p2, WordSLt(p1, p2))

janet_uint64_compare(p1, p2) == ThreeWay(p1 = p2, WordULt(p1, p2))

\* The hash and compare slots of a descriptor, applied.
HashOf(type, p) ==
    IF Descriptor(type).hash = "janet_int64_hash" THEN janet_int64_hash(p) ELSE 0

CompareOf(type, p1, p2) ==
    IF Descriptor(type).compare = "janet_int64_compare"
    THEN janet_int64_compare(p1, p2)
    ELSE janet_uint64_compare(p1, p2)

\* The marshal stream: the host's envelope of an abstract value (it names the
\* descriptor), then raw bytes.
Envelope(type) == [tag |-> "abstract", name |-> type, val |-> 0]

RawByte(b) == [tag |-> "byte", name |-> "", val |-> b]

\* janet_marshal_int64: the eight bytes of x, least significant first.
janet_marshal_int64(x) == [i \in ByteIdx |-> RawByte(x[i])]

\* int64_marshal writing the low 32 bits alone.
Int64MarshalLowWord(p) == [i \in ByteIdx |-> RawByte(IF i <= 4 THEN p[i] ELSE 0)]

\* int64_marshal: what the routine appends to the stream for payload p
\* (janet_marshal_abstract writes nothing: it records p as seen).
int64_marshal(p) == janet_marshal_int64(p)

\* The host's marshal of the box b: the envelope, then the descriptor's routine.
MarshalAbstract(b) == << Envelope(b.type) >> \o int64_marshal(b.data)

\* janet_unmarshal_int64: eight bytes read from the stream s, or too few left.
janet_unmarshal_int64(s) ==
    IF Len(s) < NBytes \/ \E i \in ByteIdx : s[i].tag # "byte"
    THEN [ok |-> FALSE, val |-> WordZero]
    ELSE [ok |-> TRUE, val |-> [i \in ByteIdx |-> s[i].val]]

\* `p[0] = janet_unmarshal_int64(ctx)` read r, or the stream ended.
UnmarshalWith(r) ==
    IF r.ok THEN Returned(r.val)
    ELSE Panicked("unexpected end of source", -1, TRUE, Unwritten)

\* int64_unmarshal: the cell is allocated (janet_unmarshal_abstract, tagged
\* with the descriptor whose routine runs), then filled from the stream s.
int64_unmarshal(s) == UnmarshalWith(janet_unmarshal_int64(s))

\* sprintf("%" PRIu64): the decimal digits of a pattern read as unsigned,
\* from qr, the quotient and remainder of the pattern by ten.
RECURSIVE Decimal(_)
Decimal(qr) ==
    (IF qr.quot = WordZero THEN << >> ELSE Decimal(WordUDivMod(qr.quot, WordOfNat(10))))
        \o << <<"0", "1", "2", "3", "4", "5", "6", "7", "8", "9">>[qr.rem[1] + 1] >>

\* it_u64_tostring: what is pushed on the buffer for payload p.
it_u64_tostring(p) == Decimal(WordUDivMod(p, WordOfNat(10)))

\* it_s64_tostring: sprintf("%" PRId64) writes the sign, then the magnitude.
it_s64_tostring(p) ==
    IF SignBit(p) THEN << "-" >> \o it_u64_tostring(WordNeg(p)) ELSE it_u64_tostring(p)

\* ------------------------------------------------------------- the state

VARIABLES
    build,   \* how this build resolves undefined behaviour
    heap,    \* the abstract cells allocated so far: type tag and payload
    argv,    \* the arguments of the call
    call,    \* the routine called: descriptor, name it is bound to, C function
    result,  \* how the call ended, and the value it returned
    stream,  \* the marshal stream
    pc       \* "ready": before the call; "marshalled"; "done"

vars == << build, heap, argv, call, result, stream, pc >>

\* The largest number of arguments of a call.
MaxArgs == 3

\* All argument lists of length 0..MaxArgs over the values vs.
RECURSIVE ListsOfLen(_, _)
ListsOfLen(vs, n) ==
    IF n = 0 THEN {<< >>}
    ELSE {Append(l, v) : l \in ListsOfLen(vs, n - 1), v \in vs}

ArgLists(vs) == UNION {ListsOfLen(vs, n) : n \in 0..MaxArgs}

\* The state before a call on the heap h with arguments drawn from vs.
InitWith(h, vs) ==
    /\ build \in Builds
    /\ heap = h
    /\ argv \in ArgLists(vs)
    /\ call = [type |-> "", key |-> "", cfun |-> ""]
    /\ result = [status |-> "none", msg |-> "", at |-> -1, ret |-> Nil]
    /\ stream = << >>
    /\ pc = "ready"

\* Call keeping its result in the cell of the first argument.
CallInPlace(m, out) ==
    /\ pc = "ready"
    /\ pc' = "done"
    /\ call' = m
    /\ heap' = IF out.alloc /\ argv # << >> /\ argv[1].kind = "abstract"
               THEN [heap EXCEPT ![argv[1].ptr] = Box(m.type, out.box)]
               ELSE IF out.alloc THEN Append(heap, Box(m.type, out.box)) ELSE heap
    /\ result' = [status |-> out.status, msg |-> out.msg, at |-> out.at,
                  ret |-> IF out.status = "return" /\ out.alloc
                          THEN (IF argv # << >> /\ argv[1].kind = "abstract"
                                THEN argv[1] ELSE Abstract(Len(heap) + 1))
                          ELSE out.ret]
    /\ UNCHANGED << build, argv, stream >>

\* The call of binding m ends with outcome out: the cell, if one was
\* allocated, is the next of the heap, and a returned cell is the result.
Call(m, out) ==
    /\ pc = "ready"
    /\ pc' = "done"
    /\ call' = m
    /\ heap' = IF out.alloc THEN Append(heap, Box(m.type, out.box)) ELSE heap
    /\ result' = [status |-> out.status, msg |-> out.msg, at |-> out.at,
                  ret |-> IF out.status = "return" /\ out.alloc
                          THEN Abstract(Len(heap) + 1) ELSE out.ret]
    /\ UNCHANGED << build, argv, stream >>

BoundTo(macro) == {m \in Bindings : InstanceOf(m.cfun).macro = macro}

S64New ==
    \E m \in it_cfuns : m.cfun = "cfun_it_s64_new" /\ Call(m, cfun_it_s64_new(heap, argv))

U64New ==
    \E m \in it_cfuns : m.cfun = "cfun_it_u64_new" /\ Call(m, cfun_it_u64_new(heap, argv))

OpMethod ==
    \E m \in BoundTo("OPMETHOD") :
        Call(m, OPMETHOD(m.type, InstanceOf(m.cfun).oper, build, heap, argv))

OpMethodInvert ==
    \E m \in BoundTo("OPMETHODINVERT") :
        Call(m, OPMETHODINVERT(m.type, InstanceOf(m.cfun).oper, build, heap, argv))

DivMethod ==
    \E m \in BoundTo("DIVMETHOD") :
        Call(m, DIVMETHOD(m.type, InstanceOf(m.cfun).oper, build, heap, argv))

DivMethodInvert ==
    \E m \in BoundTo("DIVMETHODINVERT") :
        Call(m, DIVMETHODINVERT(m.type, InstanceOf(m.cfun).oper, build, heap, argv))

DivMethodSigned ==
    \E m \in BoundTo("DIVMETHOD_SIGNED") :
        Call(m, DIVMETHOD_SIGNED(m.type, InstanceOf(m.cfun).oper, build, heap, argv))

DivMethodInvertSigned ==
    \E m \in BoundTo("DIVMETHODINVERT_SIGNED") :
        Call(m, DIVMETHODINVERT_SIGNED(m.type, InstanceOf(m.cfun).oper, build, heap, argv))

CompMethod ==
    \E m \in BoundTo("COMPMETHOD") :
        Call(m, COMPMETHOD(m.type, InstanceOf(m.cfun).oper, heap, argv))

S64Mod ==
    \E m \in BoundTo("cfun_it_s64_mod") : Call(m, cfun_it_s64_mod(build, heap, argv))

S64Modi ==
    \E m \in BoundTo("cfun_it_s64_modi") : Call(m, cfun_it_s64_modi(build, heap, argv))

\* The host hashes an integer box through its descriptor.
Hash ==
    \E p \in DOMAIN heap :
        /\ heap[p].type \in IntTypes
        /\ argv = << Abstract(p) >>
        /\ Call([type |-> heap[p].type, key |-> "hash", cfun |-> Descriptor(heap[p].type).hash],
                ReturnedValue(Int32(HashOf(heap[p].type, heap[p].data))))

\* The host compares two boxes of the same descriptor through that descriptor.
Compare ==
    \E p \in DOMAIN heap, q \in DOMAIN heap :
        /\ heap[p].type \in IntTypes
        /\ heap[q].type = heap[p].type
        /\ argv = << Abstract(p), Abstract(q) >>
        /\ Call([type |-> heap[p].type, key |-> "compare",
                 cfun |-> Descriptor(heap[p].type).compare],
                ReturnedValue(Int32(CompareOf(heap[p].type, heap[p].data, heap[q].data))))

\* The host looks a member of the box argv[1] up through its descriptor's get
\* slot, with any key: the name of a method of either table, another
\* keyword, or a value that is no keyword. The routine returns 1 and the
\* handler ("return"), or 0 ("declined").
ItGet ==
    \E p \in DOMAIN heap :
      \E key \in {Keyword(k) : k \in MethodNames(it_s64_methods) \cup MethodNames(it_u64_methods)
                                       \cup {"foo", "int/s64", ""}}
                   \cup {String(<< "+" >>), Nil, NumberOfInt(7), Abstract(p)} :
        /\ pc = "ready"
        /\ heap[p].type \in IntTypes
        /\ argv = << Abstract(p) >>
        /\ argv' = << Abstract(p), key >>
        /\ call' = [type |-> heap[p].type, key |-> "get", cfun |-> Descriptor(heap[p].type).get]
        /\ result' = [status |-> IF Get(heap[p].type, key).found THEN "return" ELSE "declined",
                      msg |-> "", at |-> -1,
                      ret |-> IF Get(heap[p].type, key).found
                              THEN [kind |-> "cfunction", cfun |-> Get(heap[p].type, key).cfun]
                              ELSE Nil]
        /\ pc' = "done"
        /\ UNCHANGED << build, heap, stream >>

\* The host prints an integer box through its descriptor.
ToStringCall ==
    \E p \in DOMAIN heap :
        /\ heap[p].type \in IntTypes
        /\ argv = << Abstract(p) >>
        /\ Call([type |-> heap[p].type, key |-> "tostring",
                 cfun |-> Descriptor(heap[p].type).tostring],
                ReturnedValue(String(IF Descriptor(heap[p].type).tostring = "it_s64_tostring"
                                     THEN it_s64_tostring(heap[p].data)
                                     ELSE it_u64_tostring(heap[p].data))))

\* The host marshals an integer box: its envelope, then the descriptor's routine.
Marshal ==
    \E p \in DOMAIN heap :
        /\ pc = "ready"
        /\ heap[p].type \in IntTypes
        /\ argv = << Abstract(p) >>
        /\ stream' = stream \o MarshalAbstract(heap[p])
        /\ call' = [type |-> heap[p].type, key |-> "marshal",
                    cfun |-> Descriptor(heap[p].type).marshal]
        /\ result' = [status |-> "return", msg |-> "", at |-> -1, ret |-> Nil]
        /\ pc' = "marshalled"
        /\ UNCHANGED << build, heap, argv >>

\* The host reads an envelope, finds the descriptor it names and runs that
\* descriptor's unmarshal routine on the rest of the stream, with outcome out.
Unmarshalled(type, out) ==
    /\ heap' = Append(heap, Box(type, out.box))
    /\ call' = [type |-> type, key |-> "unmarshal", cfun |-> Descriptor(type).unmarshal]
    /\ result' = [status |-> out.status, msg |-> out.msg, at |-> out.at,
                  ret |-> IF out.status = "return" THEN Abstract(Len(heap) + 1) ELSE Nil]
    /\ stream' = IF out.status = "return"
                 THEN SubSeq(stream, NBytes + 2, Len(stream)) ELSE stream

Unmarshal ==
    /\ pc = "marshalled"
    /\ Len(stream) >= 1
    /\ stream[1].tag = "abstract"
    /\ stream[1].name \in IntTypes
    /\ Unmarshalled(stream[1].name, int64_unmarshal(Tail(stream)))
    /\ pc' = "done"
    /\ UNCHANGED << build, argv >>

\* The largest number of cells of the heap.
MaxCells == 3

\* Unless the last call trapped, the host goes on to its next call, on one
\* or two of the boxes that hold a value: the arguments are chosen anew, the
\* heap stays as the last call left it.
Again ==
    /\ pc \in {"done", "marshalled"}
    /\ result.status # "trap"
    /\ Len(heap) < MaxCells
    /\ pc' = "ready"
    /\ argv' \in ListsOfLen({Abstract(p) : p \in {q \in DOMAIN heap : heap[q].data # Unwritten}}, 1)
                   \cup ListsOfLen({Abstract(p) : p \in {q \in DOMAIN heap : heap[q].data # Unwritten}}, 2)
    /\ call' = [type |-> "", key |-> "", cfun |-> ""]
    /\ result' = [status |-> "none", msg |-> "", at |-> -1, ret |-> Nil]
    /\ stream' = << >>
    /\ UNCHANGED << build, heap >>

\* ------------------------------------------------------- specifications

\* Every operation, on a heap of one signed and one unsigned box.
Init ==
    InitWith(<< Box(S64, WordAllOnes), Box(U64, WordOfNat(5)) >>,
             {Abstract(1), Abstract(2), Nil})

Next ==
    \/ S64New
    \/ U64New
    \/ OpMethod
    \/ OpMethodInvert
    \/ DivMethod
    \/ DivMethodInvert
    \/ DivMethodSigned
    \/ DivMethodInvertSigned
    \/ CompMethod
    \/ S64Mod
    \/ S64Modi
    \/ Hash
    \/ Compare
    \/ Marshal
    \/ Unmarshal

Spec == Init /\ [][Next]_vars

\* The division family: INT64_MIN, -1, 0 and small operands of both signs.
SpecDiv ==
    /\ InitWith(<< Box(S64, INT64_MIN) >>,
                {Abstract(1), NumberOfInt(-1), NumberOfInt(0), NumberOfInt(7), NumberOfInt(-3)})
    /\ [][\/ DivMethod
          \/ DivMethodInvert
          \/ DivMethodSigned
          \/ DivMethodInvertSigned
          \/ S64Mod
          \/ S64Modi]_vars

\* Boxes of both descriptors: equal bit patterns under either, and a pattern
\* whose eight bytes all differ.
BoxHeap ==
    << Box(S64, WordAllOnes), Box(U64, WordAllOnes),
       Box(S64, INT64_MIN), Box(U64, INT64_MIN),
       Box(S64, << 1, 2, 3, 4, 5, 6, 7, 200 >>), Box(U64, << 1, 2, 3, 4, 5, 6, 7, 200 >>) >>

\* The descriptors' hash and compare slots.
SpecHash ==
    /\ InitWith(BoxHeap, {Abstract(p) : p \in DOMAIN BoxHeap})
    /\ [][Hash \/ Compare]_vars

\* The descriptors' marshal and unmarshal slots.
SpecMarshal ==
    /\ InitWith(BoxHeap, {Abstract(p) : p \in DOMAIN BoxHeap})
    /\ [][Marshal \/ Unmarshal]_vars

\* The comparison handlers on boxes of both signs.
SpecCmp ==
    /\ InitWith(<< Box(U64, WordOfNat(5)), Box(S64, WordAllOnes),
                   Box(S64, INT64_MIN), Box(U64, WordOfNat(7)) >>,
                {Abstract(p) : p \in 1..4})
    /\ [][CompMethod]_vars

\* The constructors on doubles around the limits: 2^53, -2^53, the next
\* doubles beyond them, -7.5, 0.5, -0.5, -0.0, -1, NaN and infinity.
SpecNew ==
    /\ InitWith(<< >>,
                { Number(FALSE, MAX_INT_IN_DBL, FALSE), Number(TRUE, MAX_INT_IN_DBL, FALSE),
                  Number(FALSE, WordAdd(MAX_INT_IN_DBL, WordOfNat(2)), FALSE),
                  Number(TRUE, WordAdd(MAX_INT_IN_DBL, WordOfNat(2)), FALSE),
                  Number(TRUE, WordOfNat(7), TRUE), Number(FALSE, WordZero, TRUE),
                  Number(TRUE, WordZero, TRUE), Number(TRUE, WordZero, FALSE),
                  NumberOfInt(-1), NaN, Infinity(FALSE) })
    /\ [][S64New \/ U64New]_vars

\* The fold handlers on INT64_MAX, an unsigned box and small numbers.
SpecFold ==
    /\ InitWith(<< Box(S64, INT64_MAX), Box(U64, WordAllOnes) >>,
                {Abstract(1), Abstract(2), NumberOfInt(1), NumberOfInt(-1), NumberOfInt(3)})
    /\ [][OpMethod]_vars

\* Sequences of calls on the boxes of a growing heap: the constructors, the
\* arithmetic and comparison handlers and the descriptors' hash, compare,
\* tostring and marshal slots, first on an unsigned 2^63.
SpecSeq ==
    /\ InitWith(<< Box(U64, INT64_MIN) >>, {Abstract(1)})
    /\ [][\/ S64New
          \/ U64New
          \/ OpMethod
          \/ OpMethodInvert
          \/ DivMethod
          \/ DivMethodInvert
          \/ DivMethodSigned
          \/ DivMethodInvertSigned
          \/ S64Mod
          \/ S64Modi
          \/ CompMethod
          \/ Hash
          \/ Compare
          \/ ToStringCall
          \/ Marshal
          \/ Again]_vars

\* The get slots of both descriptors, on a box of each.
SpecGet ==
    /\ InitWith(<< Box(S64, WordAllOnes), Box(U64, INT64_MIN) >>, {Abstract(1), Abstract(2)})
    /\ [][ItGet]_vars

\* The signed 'mod' fold on INT64_MIN, -1 and small operands of both signs.
SpecMod ==
    /\ InitWith(<< Box(S64, INT64_MIN) >>,
                {Abstract(1), NumberOfInt(-1), NumberOfInt(-7), NumberOfInt(3),
                 NumberOfInt(7), NumberOfInt(-3)})
    /\ [][S64Mod]_vars

\* The reverse handlers on INT64_MIN, -1, 0, small operands and nil.
SpecRev ==
    /\ InitWith(<< Box(S64, INT64_MIN) >>,
                {Abstract(1), NumberOfInt(-1), NumberOfInt(0), NumberOfInt(7),
                 NumberOfInt(3), Nil})
    /\ [][\/ OpMethodInvert
          \/ DivMethodInvert
          \/ DivMethodInvertSigned
          \/ S64Modi]_vars

\* ------------------------------------------------------------ properties

Done == pc = "done"

\* The payload of the box the call returned.
ResultData == heap[result.ret.ptr].data

ReturnedBox(type, w) ==
    /\ result.status = "return"
    /\ result.ret.kind = "abstract"
    /\ result.ret.ptr \in DOMAIN heap
    /\ heap[result.ret.ptr] = Box(type, w)

PanickedWith(msg) == result.status = "panic" /\ result.msg = msg

\* The operand argv[i] as the called handler's type converts it.
Operand(i) == Unwrap(call.type, heap, argv[i])

ConvertsTo(i, w) == Operand(i) = Converted(w)

\* The call is to the handler bound to name k of descriptor t.
CallOf(t, k) == Done /\ call.type = t /\ call.key = k

ForwardDivKeys == {"/", "%", "mod"}

\* Operand k (C index k - 1 >= 1) is the first that converts to zero.
FirstZeroAt(k) ==
    /\ ConvertsTo(k, WordZero)
    /\ \A j \in 2..(k - 1) : ~ConvertsTo(j, WordZero)

\* C1 as claimed: in a forward '/', '%' or 'mod' call of either type with two
\* or more operands, a zero among the operands after the first makes the call
\* fail with "division by zero", whatever the other operands are.
C1_ZeroAlwaysDivideByZero ==
    (/\ Done
     /\ call.type \in IntTypes
     /\ call.key \in ForwardDivKeys
     /\ Len(argv) >= 2
     /\ \E k \in 2..Len(argv) : ConvertsTo(k, WordZero))
    => PanickedWith(DivByZeroMsg)

\* C1 as amended: when operand k >= 1 is the first to convert to zero, the
\* call returns no box; it fails with "division by zero" at operand k unless
\* it has already failed at an earlier operand: an operand that does not
\* convert, INT64_MIN met by -1 in signed '/' or '%' (the overflow panic), or,
\* in signed 'mod', which does not guard that case, the undefined remainder.
\* With every earlier operand convertible and none of the earlier divisors
\* -1, the failure is the "division by zero" at operand k.
C1_FirstZeroDivideByZero ==
    (/\ Done
     /\ call.type \in IntTypes
     /\ call.key \in ForwardDivKeys
     /\ Len(argv) >= 2)
    => \A k \in 2..Len(argv) :
         FirstZeroAt(k) =>
           /\ result.status # "return"
           /\ \/ PanickedWith(DivByZeroMsg) /\ result.at = k - 1
              \/ /\ result.at \in 0..(k - 2)
                 /\ \/ /\ PanickedWith(BadInitializerMsg(call.type))
                       /\ ~Operand(result.at + 1).ok
                    \/ /\ PanickedWith(OverflowMsg)
                       /\ call.type = S64 /\ call.key \in {"/", "%"}
                       /\ ConvertsTo(result.at + 1, WordAllOnes)
                    \/ /\ result.status = "trap"
                       /\ call.type = S64 /\ call.key = "mod"
                       /\ ConvertsTo(result.at + 1, WordAllOnes)
           /\ ((/\ \A j \in 1..(k - 1) : Operand(j).ok
                /\ \A j \in 2..(k - 1) : ~ConvertsTo(j, WordAllOnes))
               => PanickedWith(DivByZeroMsg) /\ result.at = k - 1)

\* C1 witness: a three-operand unsigned '%' whose last operand is the first
\* zero has failed with "division by zero" there.
C1_Witness ==
    /\ CallOf(U64, "%")
    /\ Len(argv) = 3
    /\ FirstZeroAt(3)
    /\ PanickedWith(DivByZeroMsg)
    /\ result.at = 2

\* C2: signed '/' and '%' called with (x, -1) fail with the INT64_MIN panic
\* exactly when x is INT64_MIN; for every other x the call returns the signed
\* box of the quotient -x, or of the remainder 0.
C2_MinusOneDivisor ==
    (/\ Done
     /\ call.type = S64
     /\ call.key \in {"/", "%"}
     /\ Len(argv) = 2
     /\ Operand(1).ok
     /\ ConvertsTo(2, WordAllOnes))
    => IF ConvertsTo(1, INT64_MIN)
       THEN PanickedWith(OverflowMsg)
       ELSE ReturnedBox(S64, IF call.key = "/" THEN WordNeg(Operand(1).val) ELSE WordZero)

\* C2 witness: signed '/' of (INT64_MIN, -1) has failed with the overflow panic.
C2_Witness ==
    /\ CallOf(S64, "/")
    /\ Len(argv) = 2
    /\ ConvertsTo(1, INT64_MIN)
    /\ ConvertsTo(2, WordAllOnes)
    /\ PanickedWith(OverflowMsg)

\* The signed 'mod' call has exactly the operands a and v (as small integers).
ModCallOf(a, v) ==
    /\ CallOf(S64, "mod")
    /\ Len(argv) = 2
    /\ ConvertsTo(1, WordOfInt(a))
    /\ ConvertsTo(2, WordOfInt(v))

\* C3 as claimed: signed 'mod' of (7, -3) returns the signed box 8.
C3_ModSevenMinusThreeIsEight ==
    ModCallOf(7, -3) => ReturnedBox(S64, WordOfInt(8))

\* C3 as amended: signed 'mod' of (7, -3) returns the signed box 1: the
\* native remainder 7 % -3 is 1, which is not negative, so nothing is added.
C3_ModSevenMinusThreeIsOne ==
    ModCallOf(7, -3) => ReturnedBox(S64, WordOfInt(1))

\* C3 witness: signed 'mod' of (7, -3) has returned.
C3_Witness == ModCallOf(7, -3) /\ result.status = "return"

\* Bit j of the byte n, and the exclusive or of two bytes bit by bit.
BitOf(n, j) == (n \div (2 ^ j)) % 2

XorOfBytes(x, y) ==
    LET b(j) == IF BitOf(x, j) # BitOf(y, j) THEN 2 ^ j ELSE 0
    IN  b(0) + b(1) + b(2) + b(3) + b(4) + b(5) + b(6) + b(7)

\* The exclusive or of the two 32-bit halves of the payload d, as an int32.
XorOfHalves(d) ==
    LET x(i) == XorOfBytes(d[i], d[i + 4])
    IN  x(1) + 256 * x(2) + 65536 * x(3)
          + 16777216 * (IF x(4) >= 128 THEN x(4) - 256 ELSE x(4))

\* The cell whose pointer is the argument i of the call.
ArgCell(i) == heap[argv[i].ptr]

\* C4: the hash of a box is the exclusive or of the two 32-bit halves of its
\* payload, whichever descriptor the box carries: it is the hash of every
\* cell of the heap that holds the same eight bytes under either descriptor.
C4_HashIsXorOfHalves ==
    (Done /\ call.key = "hash")
    => /\ result.status = "return"
       /\ result.ret = Int32(XorOfHalves(ArgCell(1).data))
       /\ call.cfun = "janet_int64_hash"
       /\ \A q \in DOMAIN heap :
            heap[q].data = ArgCell(1).data
            => Int32(HashOf(heap[q].type, heap[q].data)) = result.ret

\* C4 witness: the signed box of -1 has been hashed, to 0, with the unsigned
\* box of 18446744073709551615 in the heap.
C4_Witness ==
    /\ CallOf(S64, "hash")
    /\ ArgCell(1) = Box(S64, WordAllOnes)
    /\ \E q \in DOMAIN heap : heap[q] = Box(U64, WordAllOnes)
    /\ result.ret = Int32(0)

\* a < b as unsigned 64-bit patterns: at the most significant byte where
\* they differ, a's is the smaller.
UnsignedLess(a, b) ==
    \E i \in ByteIdx : a[i] < b[i] /\ \A j \in ByteIdx : j > i => a[j] = b[j]

\* a < b as two's-complement values: by sign first, then as patterns.
SignedLess(a, b) ==
    \/ a[NBytes] >= 128 /\ b[NBytes] < 128
    \/ (a[NBytes] >= 128) = (b[NBytes] >= 128) /\ UnsignedLess(a, b)

LessOf(type, a, b) == IF type = S64 THEN SignedLess(a, b) ELSE UnsignedLess(a, b)

\* What the comparison named k answers for a and b in the order of type.
ComparisonOf(type, k, a, b) ==
    CASE k = "<" -> LessOf(type, a, b)
      [] k = ">" -> LessOf(type, b, a)
      [] k = "<=" -> ~LessOf(type, b, a)
      [] k = ">=" -> ~LessOf(type, a, b)
      [] k = "=" -> a = b
      [] k = "!=" -> a # b

ComparisonKeys == {"<", ">", "<=", ">=", "=", "!="}

BothBoxed ==
    /\ Len(argv) = 2
    /\ \A i \in 1..2 : argv[i].kind = "abstract" /\ IsIntBox(heap, argv[i])

\* C5: a comparison handler called on two boxes, of either signedness,
\* returns the boolean of the comparison of their payloads in the order of its
\* own type: as unsigned patterns for the unsigned handlers, as
\* two's-complement values for the signed ones. So the unsigned '<' on
\* (unsigned 5, signed -1) returns true.
C5_ComparesInOwnOrder ==
    (/\ Done
     /\ call.type \in IntTypes
     /\ call.key \in ComparisonKeys
     /\ BothBoxed)
    => /\ result.status = "return"
       /\ result.ret = Boolean(ComparisonOf(call.type, call.key,
                                            ArgCell(1).data, ArgCell(2).data))
       /\ (/\ call.type = U64 /\ call.key = "<"
           /\ ArgCell(1) = Box(U64, WordOfNat(5))
           /\ ArgCell(2) = Box(S64, WordAllOnes))
          => result.ret = Boolean(TRUE)

\* C5 witness: the unsigned '<' has been called on (unsigned 5, signed -1).
C5_Witness ==
    /\ CallOf(U64, "<")
    /\ BothBoxed
    /\ ArgCell(1) = Box(U64, WordOfNat(5))
    /\ ArgCell(2) = Box(S64, WordAllOnes)
    /\ result.ret = Boolean(TRUE)

\* The constructor of type t has been called on one number.
NewOnNumber(t) ==
    /\ Done
    /\ call.type = t
    /\ call.key \in {"int/s64", "int/u64"}
    /\ Len(argv) = 1
    /\ argv[1].kind = "number"

\* 2^53 as eight bytes, least significant first.
TwoTo53 == << 0, 0, 0, 0, 0, 0, 32, 0 >>

\* |d| <= 2^53 (false for NaN and the infinities).
MagnitudeInRange(d) ==
    /\ d.cls = "finite"
    /\ \/ UnsignedLess(d.mag, TwoTo53)
       \/ d.mag = TwoTo53 /\ ~d.frac

\* The pattern w is the double d truncated toward zero.
TruncationOf(d, w) == IF d.neg THEN WordAdd(w, d.mag) = WordZero ELSE w = d.mag

\* C6: the signed constructor applied to a number d returns the signed box of
\* d truncated toward zero when |d| <= 2^53, and fails with "bad s64
\* initializer", returning no box, for every other d.
C6_SignedFromDouble ==
    NewOnNumber(S64)
    => IF MagnitudeInRange(argv[1])
       THEN /\ result.status = "return"
            /\ ReturnedBox(S64, ResultData)
            /\ TruncationOf(argv[1], ResultData)
       ELSE PanickedWith("bad s64 initializer")

\* C6 witness: the signed constructor has returned the box of -2^53 for the
\* double -2^53.
C6_Witness ==
    /\ NewOnNumber(S64)
    /\ argv[1] = Number(TRUE, TwoTo53, FALSE)
    /\ ReturnedBox(S64, << 0, 0, 0, 0, 0, 0, 224, 255 >>)

\* C7 as claimed: the unsigned constructor's conversion accepts a number
\* whenever its magnitude is <= 2^53, and fails only when it exceeds 2^53.
C7_UnsignedBySignedRule ==
    NewOnNumber(U64)
    => IF MagnitudeInRange(argv[1])
       THEN result.status = "return"
       ELSE PanickedWith("bad u64 initializer")

\* d >= 0 (true for -0.0, false for NaN).
NotNegative(d) == d.cls # "nan" /\ (~d.neg \/ (d.cls = "finite" /\ d.mag = WordZero /\ ~d.frac))

\* C7 as amended: the unsigned constructor's conversion accepts a number d
\* exactly when 0 <= d <= 2^53 (-0.0 included) and then gives d truncated
\* toward zero; every negative d, like every d above 2^53, NaN and the
\* infinities, fails with "bad u64 initializer".
C7_UnsignedFromDouble ==
    NewOnNumber(U64)
    => IF NotNegative(argv[1]) /\ MagnitudeInRange(argv[1])
       THEN /\ result.status = "return"
            /\ ReturnedBox(U64, argv[1].mag)
       ELSE PanickedWith("bad u64 initializer")

\* C7 witness: the unsigned constructor has failed on the double -2^53.
C7_Witness ==
    /\ NewOnNumber(U64)
    /\ argv[1] = Number(TRUE, TwoTo53, FALSE)
    /\ PanickedWith("bad u64 initializer")

ReverseKeys == {"r-", "r/", "r%", "rmod"}

ForwardFoldKeys == {"+", "-", "*", "/", "%", "mod", "&", "|", "^", "<<", ">>"}

\* The call failed the arity check, before any operand was looked at.
ArityFailed == PanickedWith(ArityMsg) /\ result.at = -1 /\ result.ret = Nil

\* The call fails the arity check exactly when accepted is false.
ArityChecked(accepted) == IF accepted THEN result.msg # ArityMsg ELSE ArityFailed

\* C8: the arity is checked before any operand is converted: a constructor
\* fails with the arity error for every count but 1, a comparison or reverse
\* handler for every count but 2, a forward fold handler for every count
\* below 2 and for none from 2 up, whatever the arguments are.
C8_ArityFirst ==
    (Done /\ call.type \in IntTypes)
    => /\ call.key \in {"int/s64", "int/u64"} => ArityChecked(Len(argv) = 1)
       /\ call.key \in ComparisonKeys \cup ReverseKeys => ArityChecked(Len(argv) = 2)
       /\ call.key \in ForwardFoldKeys => ArityChecked(Len(argv) >= 2)

\* C8 witness: a signed '<' called with three arguments, the first of them
\* not convertible, has failed with the arity error.
C8_Witness ==
    /\ CallOf(S64, "<")
    /\ Len(argv) = 3
    /\ argv[1] = Nil
    /\ ArityFailed

\* C9: unmarshalling what marshal wrote for a box gives a fresh cell of the
\* same descriptor holding the same eight bytes, and leaves nothing in the
\* stream.
C9_MarshalRoundTrip ==
    (Done /\ call.key = "unmarshal")
    => /\ result.status = "return"
       /\ result.ret = Abstract(Len(heap))
       /\ result.ret.ptr # argv[1].ptr
       /\ heap[Len(heap)].type = ArgCell(1).type
       /\ heap[Len(heap)].data = ArgCell(1).data
       /\ call.type = ArgCell(1).type
       /\ stream = << >>

\* C9 witness: the unsigned box of a pattern of eight different bytes has
\* been marshalled and unmarshalled.
C9_Witness ==
    /\ CallOf(U64, "unmarshal")
    /\ ArgCell(1) = Box(U64, << 1, 2, 3, 4, 5, 6, 7, 200 >>)
    /\ result.status = "return"

\* The rearrangements of the argument list l.
Rearrangements(l) ==
    { [i \in DOMAIN l |-> l[f[i]]] :
        f \in {g \in [DOMAIN l -> DOMAIN l] : \A i, j \in DOMAIN l : g[i] = g[j] => i = j} }

\* The fold handler called ends on the arguments q as it ended on argv.
SameFoldOutcome(q) ==
    LET o == OPMETHOD(call.type, InstanceOf(call.cfun).oper, build, heap, q)
    IN  /\ o.status = result.status
        /\ o.status = "return" => ReturnedBox(call.type, o.box)

CommutativeKeys == {"+", "*", "&", "|", "^"}

CommutativeFold ==
    /\ Done
    /\ call.type \in IntTypes
    /\ call.key \in CommutativeKeys
    /\ Len(argv) >= 2
    /\ \A i \in DOMAIN argv : Operand(i).ok

\* C10 as claimed: an add, multiply, and, or, xor handler of either type,
\* called on two or more convertible operands, ends the same way, with the
\* same boxed result, on every rearrangement of the operands.
C10_OrderIndependent ==
    CommutativeFold => \A q \in Rearrangements(argv) : SameFoldOutcome(q)

\* C10, the part that holds: the same, for the unsigned handlers, for the
\* bitwise handlers, and for signed add and multiply on a build where signed
\* overflow wraps around.
C10_OrderIndependentWhereDefined ==
    (/\ CommutativeFold
     /\ \/ call.type = U64
        \/ call.key \in {"&", "|", "^"}
        \/ build # "sanitized")
    => \A q \in Rearrangements(argv) : SameFoldOutcome(q)

\* C10 witness of the divergence: signed '+' on (INT64_MAX, 1, -1) stopped at
\* the overflowing first addition, while on (INT64_MAX, -1, 1) it returns.
C10_Witness ==
    /\ CallOf(S64, "+")
    /\ argv = << Abstract(1), NumberOfInt(1), NumberOfInt(-1) >>
    /\ ArgCell(1) = Box(S64, INT64_MAX)
    /\ result.status = "trap"
    /\ OPMETHOD(S64, "+", build, heap,
                << Abstract(1), NumberOfInt(-1), NumberOfInt(1) >>).status = "return"

\* A constructor has been called on one box of either descriptor.
NewOnBox ==
    /\ Done
    /\ call.key \in {"int/s64", "int/u64"}
    /\ Len(argv) = 1
    /\ argv[1].kind = "abstract"
    /\ argv[1].ptr \in DOMAIN heap
    /\ ArgCell(1).type \in {S64, U64}

\* C11: converting a box of either descriptor never fails and keeps its
\* eight bytes: the constructor returns a fresh box of its own descriptor
\* with the bytes of the argument, and converting that box back, as signed
\* or as unsigned, gives those bytes again. The signed box made from an
\* unsigned box of 2^63 or more reads as a negative value (u - 2^64), the
\* unsigned box made from a negative signed box as 2^63 or more (s + 2^64).
C11_BoxConversionKeepsBits ==
    NewOnBox
    => /\ ReturnedBox(call.type, ArgCell(1).data)
       /\ result.ret.ptr # argv[1].ptr
       /\ janet_unwrap_u64(heap, result.ret) = Converted(ArgCell(1).data)
       /\ janet_unwrap_s64(heap, result.ret) = Converted(ArgCell(1).data)
       /\ (call.type = S64 /\ ArgCell(1).type = U64 /\ ArgCell(1).data[NBytes] >= 128)
          => SignedLess(ResultData, WordZero)
       /\ (call.type = U64 /\ ArgCell(1).type = S64 /\ SignedLess(ArgCell(1).data, WordZero))
          => ~UnsignedLess(ResultData, << 0, 0, 0, 0, 0, 0, 0, 128 >>)

\* C11 witness: the signed constructor has returned the box INT64_MIN for
\* the unsigned box 2^63.
C11_Witness ==
    /\ NewOnBox
    /\ call.type = S64
    /\ ArgCell(1) = Box(U64, << 0, 0, 0, 0, 0, 0, 0, 128 >>)
    /\ ReturnedBox(S64, INT64_MIN)

\* The method table of the descriptor whose get slot was called.
OwnTable == IF call.type = S64 THEN it_s64_methods ELSE it_u64_methods

\* C12: the get slot of either descriptor never fails. It declines for a key
\* that is no keyword; for a keyword it returns the handler of the entry of
\* its own table with exactly that name, and declines when there is none;
\* no name occurs twice in a table.
C12_GetMember ==
    (Done /\ call.key = "get")
    => /\ result.status \in {"return", "declined"}
       /\ result.msg = ""
       /\ argv[2].kind # "keyword" => result.status = "declined" /\ result.ret = Nil
       /\ argv[2].kind = "keyword"
          => IF \E i \in DOMAIN OwnTable : OwnTable[i][1] = argv[2].name
             THEN /\ result.status = "return"
                  /\ \A i \in DOMAIN OwnTable :
                       OwnTable[i][1] = argv[2].name
                       => result.ret = [kind |-> "cfunction", cfun |-> OwnTable[i][2]]
             ELSE result.status = "declined" /\ result.ret = Nil
       /\ \A i, j \in DOMAIN OwnTable : OwnTable[i][1] = OwnTable[j][1] => i = j

\* C12 witness: the unsigned get slot has returned the unsigned handler
\* bound to 'rmod'.
C12_Witness ==
    /\ CallOf(U64, "get")
    /\ argv[2] = Keyword("rmod")
    /\ result.status = "return"
    /\ result.ret = [kind |-> "cfunction", cfun |-> "cfun_it_u64_modi"]

\* The step the 'mod' fold is said to take from accumulator a with divisor
\* v: on r, the truncating remainder of a by v.
ModStepOn(a, r) ==
    IF ~SignedLess(r, WordZero) THEN r
    ELSE IF SignedLess(a, WordZero) THEN WordSub(r, a)
    ELSE WordAdd(r, a)

\* That step applied to the operands i, i + 1, ... of the call in turn.
RECURSIVE ModFoldFrom(_, _)
ModFoldFrom(a, i) ==
    IF i > Len(argv) THEN a
    ELSE ModFoldFrom(ModStepOn(a, WordSRem(a, Operand(i).val)), i + 1)

\* Does some step from operand i on divide INT64_MIN by -1?
RECURSIVE ModFoldOverflows(_, _)
ModFoldOverflows(a, i) ==
    /\ i <= Len(argv)
    /\ \/ a = INT64_MIN /\ Operand(i).val = WordAllOnes
       \/ ModFoldOverflows(ModStepOn(a, WordSRem(a, Operand(i).val)), i + 1)

\* The signed 'mod' has been called on operands that all convert, with no
\* zero after the first.
ModOnDivisors ==
    /\ CallOf(S64, "mod")
    /\ Len(argv) >= 2
    /\ \A i \in DOMAIN argv : Operand(i).ok
    /\ \A i \in 2..Len(argv) : Operand(i).val # WordZero

\* C13 as claimed: the signed 'mod' called with non-zero divisors returns the
\* box of the fold, from left to right, of the step: r = a % v truncating;
\* r when r >= 0, r - a when r < 0 and a < 0, r + a when r < 0 and a >= 0.
\* So mod(-7, 3) returns 6.
C13_ModFold ==
    /\ ModOnDivisors => ReturnedBox(S64, ModFoldFrom(Operand(1).val, 2))
    /\ ModCallOf(-7, 3) => ReturnedBox(S64, WordOfInt(6))

\* C13, the part that holds: the same, when no step of the fold divides
\* INT64_MIN by -1, or on a build whose native remainder gives 0 there.
C13_ModFoldWhereDefined ==
    /\ (ModOnDivisors /\ (build = "aarch64" \/ ~ModFoldOverflows(Operand(1).val, 2)))
       => ReturnedBox(S64, ModFoldFrom(Operand(1).val, 2))
    /\ ModCallOf(-7, 3) => ReturnedBox(S64, WordOfInt(6))

\* C13 witness of the divergence: the signed 'mod' of (INT64_MIN, -1) has
\* stopped in the native remainder, with no result.
C13_Witness ==
    /\ CallOf(S64, "mod")
    /\ argv = << Abstract(1), NumberOfInt(-1) >>
    /\ ArgCell(1) = Box(S64, INT64_MIN)
    /\ result.status = "trap"

\* mod(-7, 3) has returned 6.
C13_WitnessMinusSevenThree == ModCallOf(-7, 3) /\ ReturnedBox(S64, WordOfInt(6))

\* The forward name of a reverse name.
ForwardOf(k) ==
    CASE k = "r-" -> "-" [] k = "r/" -> "/" [] k = "r%" -> "%" [] k = "rmod" -> "mod"

\* The outcome of the forward handler cfun on the arguments args.
ForwardOutcome(cfun, args) ==
    CASE InstanceOf(cfun).macro = "OPMETHOD" ->
            OPMETHOD(InstanceOf(cfun).type, InstanceOf(cfun).oper, build, heap, args)
      [] InstanceOf(cfun).macro = "DIVMETHOD" ->
            DIVMETHOD(InstanceOf(cfun).type, InstanceOf(cfun).oper, build, heap, args)
      [] InstanceOf(cfun).macro = "DIVMETHOD_SIGNED" ->
            DIVMETHOD_SIGNED(InstanceOf(cfun).type, InstanceOf(cfun).oper, build, heap, args)
      [] InstanceOf(cfun).macro = "cfun_it_s64_mod" -> cfun_it_s64_mod(build, heap, args)

\* The handler bound to the name k in the table of the type called.
BoundHandler(k) == Get(call.type, Keyword(k)).cfun

\* The reverse call on (x, y) ended as its forward handler ends on (y, x):
\* the same way, with the same message or the same boxed result.
SameAsForward ==
    LET o == ForwardOutcome(BoundHandler(ForwardOf(call.key)), << argv[2], argv[1] >>)
    IN  /\ o.status = result.status
        /\ o.msg = result.msg
        /\ o.status = "return" => ReturnedBox(call.type, o.box)

\* A reverse handler named in ks has been called on two arguments.
ReverseCall(ks) ==
    /\ Done
    /\ call.type \in IntTypes
    /\ call.key \in ks
    /\ Len(argv) = 2

\* C14: 'r-' and 'r/' are bound, in both tables, to handlers other than
\* those of '-' and '/', and called on (x, y) they end as the forward handler
\* ends on (y, x): a returned 'r-' box holds y - x, a returned 'r/' box the
\* quotient of y by x (7 / 3 = 2 for (3, 7)), and 'r/' fails with "division
\* by zero" when y converts and x converts to zero.
C14_ReverseIsSwappedForward ==
    ReverseCall({"r-", "r/"})
    => /\ BoundHandler(call.key) # BoundHandler(ForwardOf(call.key))
       /\ call.cfun = BoundHandler(call.key)
       /\ SameAsForward
       /\ (call.key = "r-" /\ result.status = "return")
          => ReturnedBox(call.type, WordSub(Operand(2).val, Operand(1).val))
       /\ (call.key = "r-" /\ Operand(1).ok /\ Operand(2).ok
             /\ (call.type = U64 \/ build # "sanitized"))
          => result.status = "return"
       /\ (call.key = "r/" /\ ConvertsTo(1, WordOfNat(3)) /\ ConvertsTo(2, WordOfNat(7)))
          => ReturnedBox(call.type, WordOfNat(2))
       /\ (call.key = "r/" /\ Operand(2).ok /\ ConvertsTo(1, WordZero))
          => PanickedWith(DivByZeroMsg)

\* C14 witness: the signed 'r/' called on (0, 7) has failed with "division
\* by zero", as the signed '/' does on (7, 0).
C14_Witness ==
    /\ ReverseCall({"r/"})
    /\ call.type = S64
    /\ argv = << NumberOfInt(0), NumberOfInt(7) >>
    /\ PanickedWith(DivByZeroMsg)
    /\ SameAsForward

\* C17 as claimed: in both tables 'rmod' called on (x, y) ends as 'mod' ends
\* on (y, x), as 'r-', 'r/' and 'r%' do for '-', '/' and '%'.
C17_ReverseModIsSwappedMod ==
    ReverseCall({"rmod", "r-", "r/", "r%"}) => SameAsForward

\* C17, the part that holds: the same for 'r-', 'r/' and 'r%' of both types
\* and for the unsigned 'rmod'.
C17_ReverseIsSwappedButSignedMod ==
    (ReverseCall({"rmod", "r-", "r/", "r%"}) /\ ~(call.type = S64 /\ call.key = "rmod"))
    => SameAsForward

\* C17 witness of the divergence: the signed 'rmod' called on (7, 3) has
\* returned 1, which is 7 mod 3, while the signed 'mod' on (3, 7) returns 3.
C17_Witness ==
    /\ ReverseCall({"rmod"})
    /\ call.type = S64
    /\ argv = << NumberOfInt(7), NumberOfInt(3) >>
    /\ ReturnedBox(S64, WordOfNat(1))
    /\ cfun_it_s64_mod(build, heap, << NumberOfInt(3), NumberOfInt(7) >>).box = WordOfNat(3)

\* C15: no call, whether it succeeds or fails, changes the payload or the
\* descriptor of a boxed integer that existed before it; an arithmetic
\* handler writes only to the box it allocates.
C15_BoxesUnchanged ==
    [][\A p \in DOMAIN heap : p \in DOMAIN heap' /\ heap'[p] = heap[p]]_vars

\* C15 witness: after an earlier call made the signed box INT64_MIN from the
\* unsigned box 2^63, the unsigned '+' on the two has returned a third box
\* holding 0, and the two boxes it read are as they were.
C15_Witness ==
    /\ CallOf(U64, "+")
    /\ argv = << Abstract(1), Abstract(2) >>
    /\ result.ret = Abstract(3)
    /\ ReturnedBox(U64, WordZero)
    /\ heap[1] = Box(U64, INT64_MIN)
    /\ heap[2] = Box(S64, INT64_MIN)

SignedDivisionFamily == {"/", "r/", "%", "r%", "mod", "rmod"}

\* The native signed division of a by d is undefined.
UndefinedDivision(a, d) ==
    \/ d.val = WordZero
    \/ a.val = INT64_MIN /\ d.val = WordAllOnes

\* A two-operand call whose operands both convert leads the handler to the
\* native division below: 'r/' and 'r%' divide the second operand by the
\* first, the others the first by the second.
DivisionIsUndefined ==
    /\ Len(argv) = 2
    /\ Operand(1).ok
    /\ Operand(2).ok
    /\ IF call.key \in {"r/", "r%"}
       THEN UndefinedDivision(Operand(2), Operand(1))
       ELSE UndefinedDivision(Operand(1), Operand(2))

\* C16 as claimed: no handler named in ks evaluates a native signed division
\* or remainder with divisor zero or with INT64_MIN over -1; a call that
\* would lead to one has failed with a panic instead.
NoUndefinedDivisionIn(ks) ==
    (Done /\ call.type = S64 /\ call.key \in ks)
    => /\ result.status # "trap"
       /\ DivisionIsUndefined => result.status = "panic"

C16_NoUndefinedDivision == NoUndefinedDivisionIn(SignedDivisionFamily)

\* C16, the part that holds: '/', 'r/', '%' and 'r%' are guarded so, and
\* 'mod' is guarded against the zero divisor.
C16_GuardedHandlers ==
    /\ NoUndefinedDivisionIn({"/", "r/", "%", "r%"})
    /\ (CallOf(S64, "mod") /\ Len(argv) = 2 /\ Operand(1).ok /\ ConvertsTo(2, WordZero))
       => PanickedWith(DivByZeroMsg)

\* C16 witness of the divergence: the signed 'rmod' on (7, 0) has evaluated
\* 7 % 0, which traps on x86_64.
C16_Witness ==
    /\ CallOf(S64, "rmod")
    /\ argv = << NumberOfInt(7), NumberOfInt(0) >>
    /\ build = "x86_64"
    /\ result.status = "trap"

\* The signed 'mod' on (INT64_MIN, -1) has evaluated INT64_MIN % -1.
C16_WitnessMod ==
    /\ CallOf(S64, "mod")
    /\ argv = << Abstract(1), NumberOfInt(-1) >>
    /\ result.status # "panic"

====
